---- MODULE Spec2Model ----
(***************************************************************************)
(* Client-side router of exercises/04.router/04.solution.history:          *)
(* Root() with navigate(), handlePopState(), the latestNav token, the      *)
(* content promise handed to use(), and the browser history it mutates.    *)
(*                                                                         *)
(* One navigation = one entry of navs.  Entry 1 is the initial load        *)
(* (initialContentPromise); every navigate() call and every popstate       *)
(* appends one.  A content promise is identified with the index of the     *)
(* navigation that created it.                                             *)
(***************************************************************************)
EXTENDS Integers, Sequences, FiniteSets, TLC

VARIABLES
    navs,            \* the navigations initiated so far, in initiation order
    latestNav,       \* latestNav.current: token of a navigate() call, 0 = null
    nextLocation,    \* useState(getGlobalLocation)
    contentPromise,  \* useState(initialContentPromise): index into navs
    isPending,       \* useTransition()[0]
    location,        \* useDeferredValue(nextLocation)
    painted,         \* what is on screen: Suspense fallback, a tree, or the error fallback
    history,         \* window.history: entries of this document and the current index
    histLog,         \* every pushState/replaceState performed, in order
    fetchLog,        \* every fetch() issued, in order
    anySettled       \* some fetch issued by navigate() or handlePopState() has settled

vars == <<navs, latestNav, nextLocation, contentPromise, isPending, location,
          painted, history, histLog, fetchLog, anySettled>>

\* ---------------------------------------------------------------- bounds
Locations == {"/a", "/b"}

\* navigate() calls and popstate events after the initial load
MaxNavs == 2

\* ---------------------------------------------------------------- browser
\* window.location.pathname + window.location.search of the current entry
getGlobalLocation(h) == h.entries[h.idx]

\* window.history.pushState({}, '', loc): drops the forward entries, appends
pushState(h, loc) ==
    [entries |-> Append(SubSeq(h.entries, 1, h.idx), loc), idx |-> h.idx + 1]

\* window.history.replaceState({}, '', loc): overwrites the current entry
replaceState(h, loc) ==
    [entries |-> [h.entries EXCEPT ![h.idx] = loc], idx |-> h.idx]

\* ---------------------------------------------------------------- fetch
\* fetch(`/rsc${location}`): the request URL
RscUrl(loc) == <<"/rsc", loc>>

\* a fetch promise just created: nothing has come back yet
fetchContent(loc) == [url |-> RscUrl(loc), fetch |-> "inflight"]

\* fetch() fulfils with a Response for every HTTP status and rejects only
\* when the network fails
FulfilledStatus == {"ok", "notok"}

\* the session history of the document when the script starts: the entry that
\* was loaded and, possibly, a second entry of the same document for a
\* fragment of the page (its path and query are the same)
InitialHistories ==
    {[entries |-> <<l>>, idx |-> 1] : l \in Locations}
        \cup {[entries |-> <<l, l>>, idx |-> k] : l \in Locations, k \in 1..2}

\* ---------------------------------------------------------------- Root
NoToken == 0

Newest == Len(navs)

Mounted == painted.kind = "tree"

\* the navigation record made by an Initiate
NewNav(kind, loc, replace, token) ==
    [kind |-> kind, loc |-> loc, replace |-> replace, token |-> token,
     fetch |-> fetchContent(loc).fetch, returned |-> "none",
     content |-> "pending", born |-> anySettled]

\* a token that is not unique per call (a plain value instead of a Symbol)
NewSymbolShared == NoToken + 1

\* Symbol(`Nav for ${nextLocation}`): unique per call
NewSymbol == Len(navs) + 1

\* no staleness check at all: every resolving navigate() commits
IsLatestUnchecked(thisNav) == TRUE

\* staleness decided by destination instead of by token
IsLatestByLocation(thisNav) == navs[thisNav].loc = nextLocation

\* if (thisNav !== latestNav.current) return
IsLatest(thisNav) == thisNav = latestNav

\* the replace option is ignored: every commit pushes
CommitHistoryAlwaysPush(h, loc, replace) == pushState(h, loc)

\* if (replace) replaceState else pushState
CommitHistory(h, loc, replace) ==
    IF replace THEN replaceState(h, loc) ELSE pushState(h, loc)

\* a promise is installed only when no transition is under way
StartTransitionUnlessPending(p) ==
    [contentPromise |-> IF isPending THEN contentPromise ELSE p, isPending |-> TRUE]

\* setContentPromise(p) outside a transition: nothing is marked pending
StartTransitionPlain(p) == [contentPromise |-> p, isPending |-> isPending]

\* startTransition(() => setContentPromise(p)) of useTransition
StartTransition(p) == [contentPromise |-> p, isPending |-> TRUE]

\* use(initialContentPromise): the render keeps reading the first promise
UsedPromiseInitial == CHOOSE i \in 1..Len(navs) : navs[i].kind = "initial"

\* use(contentPromise): the promise the render reads
UsedPromise == contentPromise

Init ==
    /\ history \in InitialHistories
    /\ navs = <<[kind |-> "initial", loc |-> getGlobalLocation(history),
                 replace |-> FALSE, token |-> NoToken,
                 fetch |-> "inflight", returned |-> "none",
                 content |-> "pending", born |-> FALSE]>>
    /\ latestNav = NoToken
    /\ nextLocation = getGlobalLocation(history)
    /\ contentPromise = 1
    /\ isPending = FALSE
    /\ location = getGlobalLocation(history)
    /\ painted = [kind |-> "suspense", nav |-> 0]
    /\ histLog = <<>>
    /\ fetchLog = <<RscUrl(getGlobalLocation(history))>>
    /\ anySettled = FALSE

\* a popstate handler that pushes the observed location again
handlePopStatePushes(j) ==
    /\ Mounted
    /\ Len(navs) < MaxNavs + 1
    /\ j \in 1..Len(history.entries)
    /\ j # history.idx
    /\ LET h   == [history EXCEPT !.idx = j]
           loc == getGlobalLocation(h)
           t   == StartTransition(Len(navs) + 1)
       IN /\ history' = pushState(h, loc)
          /\ nextLocation' = loc
          /\ navs' = Append(navs, NewNav("popstate", loc, FALSE, NoToken))
          /\ fetchLog' = Append(fetchLog, fetchContent(loc).url)
          /\ contentPromise' = t.contentPromise
          /\ isPending' = t.isPending
    /\ UNCHANGED <<latestNav, location, painted, histLog, anySettled>>

\* a popstate handler that forgets setNextLocation
handlePopStateKeepsNextLocation(j) ==
    /\ Mounted
    /\ Len(navs) < MaxNavs + 1
    /\ j \in 1..Len(history.entries)
    /\ j # history.idx
    /\ LET h   == [history EXCEPT !.idx = j]
           loc == getGlobalLocation(h)
           t   == StartTransition(Len(navs) + 1)
       IN /\ history' = h
          /\ navs' = Append(navs, NewNav("popstate", loc, FALSE, NoToken))
          /\ fetchLog' = Append(fetchLog, fetchContent(loc).url)
          /\ contentPromise' = t.contentPromise
          /\ isPending' = t.isPending
    /\ UNCHANGED <<nextLocation, latestNav, location, painted, histLog, anySettled>>

\* the browser traverses to entry j of this document and fires popstate
handlePopState(j) ==
    /\ Mounted
    /\ Len(navs) < MaxNavs + 1
    /\ j \in 1..Len(history.entries)
    /\ j # history.idx
    /\ LET h   == [history EXCEPT !.idx = j]
           loc == getGlobalLocation(h)
           t   == StartTransition(Len(navs) + 1)
       IN /\ history' = h
          /\ nextLocation' = loc
          /\ navs' = Append(navs, NewNav("popstate", loc, FALSE, NoToken))
          /\ fetchLog' = Append(fetchLog, fetchContent(loc).url)
          /\ contentPromise' = t.contentPromise
          /\ isPending' = t.isPending
    /\ UNCHANGED <<latestNav, location, painted, histLog, anySettled>>

\* navigate() that mutates history optimistically, before the fetch is back
navigateOptimistic(loc, replace) ==
    /\ Mounted
    /\ Len(navs) < MaxNavs + 1
    /\ LET thisNav == NewSymbol
           t       == StartTransition(Len(navs) + 1)
       IN /\ nextLocation' = loc
          /\ latestNav' = thisNav
          /\ navs' = Append(navs, NewNav("navigate", loc, replace, thisNav))
          /\ fetchLog' = Append(fetchLog, fetchContent(loc).url)
          /\ contentPromise' = t.contentPromise
          /\ isPending' = t.isPending
          /\ history' = CommitHistory(history, loc, replace)
          /\ histLog' = Append(histLog,
                 [op |-> IF replace THEN "replace" ELSE "push",
                  loc |-> loc, nav |-> thisNav,
                  latest |-> thisNav, newest |-> thisNav,
                  status |-> "ok"])
    /\ UNCHANGED <<location, painted, anySettled>>

\* a navigate() whose location is published without useDeferredValue
navigateUndeferred(loc, replace) ==
    /\ Mounted
    /\ Len(navs) < MaxNavs + 1
    /\ LET thisNav == NewSymbol
           t       == StartTransition(Len(navs) + 1)
       IN /\ nextLocation' = loc
          /\ location' = loc
          /\ latestNav' = thisNav
          /\ navs' = Append(navs, NewNav("navigate", loc, replace, thisNav))
          /\ fetchLog' = Append(fetchLog, fetchContent(loc).url)
          /\ contentPromise' = t.contentPromise
          /\ isPending' = t.isPending
    /\ UNCHANGED <<painted, history, histLog, anySettled>>

\* a navigate() that skips the fetch when the destination is where it
\* already is headed
navigateDeduplicates(loc, replace) ==
    /\ Mounted
    /\ Len(navs) < MaxNavs + 1
    /\ LET thisNav == NewSymbol
           t       == StartTransition(Len(navs) + 1)
       IN /\ nextLocation' = loc
          /\ latestNav' = thisNav
          /\ navs' = Append(navs, NewNav("navigate", loc, replace, thisNav))
          /\ fetchLog' = IF loc = nextLocation THEN fetchLog
                         ELSE Append(fetchLog, fetchContent(loc).url)
          /\ contentPromise' = t.contentPromise
          /\ isPending' = t.isPending
    /\ UNCHANGED <<location, painted, history, histLog, anySettled>>

\* navigate(nextLocation, { replace })
navigate(loc, replace) ==
    /\ Mounted
    /\ Len(navs) < MaxNavs + 1
    /\ LET thisNav == NewSymbol
           t       == StartTransition(Len(navs) + 1)
       IN /\ nextLocation' = loc
          /\ latestNav' = thisNav
          /\ navs' = Append(navs, NewNav("navigate", loc, replace, thisNav))
          /\ fetchLog' = Append(fetchLog, fetchContent(loc).url)
          /\ contentPromise' = t.contentPromise
          /\ isPending' = t.isPending
    /\ UNCHANGED <<location, painted, history, histLog, anySettled>>

\* the fetch of navigation i fulfils with a Response of the given status; for
\* a navigate() call the .then callback runs in the same step
FetchResolve(i, status) ==
    /\ i \in 1..Len(navs)
    /\ navs[i].fetch = "inflight"
    /\ status \in FulfilledStatus
    /\ anySettled' = (anySettled \/ i > 1)
    /\ IF navs[i].kind = "navigate"
       THEN IF ~IsLatest(navs[i].token)
            THEN \* return undefined: createFromFetch gets no Response and
                 \* its promise never yields a tree
                 /\ navs' = [navs EXCEPT ![i].fetch = "fulfilled",
                                         ![i].returned = "undefined",
                                         ![i].content = "dropped"]
                 /\ UNCHANGED <<history, histLog>>
            ELSE /\ history' = CommitHistory(history, navs[i].loc, navs[i].replace)
                 /\ histLog' = Append(histLog,
                        [op |-> IF navs[i].replace THEN "replace" ELSE "push",
                         loc |-> navs[i].loc, nav |-> i,
                         latest |-> latestNav, newest |-> Newest,
                         status |-> status])
                 /\ navs' = [navs EXCEPT ![i].fetch = "fulfilled",
                                         ![i].returned = "response"]
       ELSE /\ navs' = [navs EXCEPT ![i].fetch = "fulfilled",
                                    ![i].returned = "response"]
            /\ UNCHANGED <<history, histLog>>
    /\ UNCHANGED <<latestNav, nextLocation, contentPromise, isPending,
                   location, painted, fetchLog>>

\* the fetch of navigation i rejects (network failure): .then is skipped and
\* the content promise rejects
FetchReject(i) ==
    /\ i \in 1..Len(navs)
    /\ navs[i].fetch = "inflight"
    /\ anySettled' = (anySettled \/ i > 1)
    /\ navs' = [navs EXCEPT ![i].fetch = "neterr", ![i].content = "rejected"]
    /\ UNCHANGED <<latestNav, nextLocation, contentPromise, isPending,
                   location, painted, history, histLog, fetchLog>>

\* RSC.createFromFetch decodes the Response of navigation i
createFromFetch(i, ok) ==
    /\ i \in 1..Len(navs)
    /\ navs[i].returned = "response"
    /\ navs[i].content = "pending"
    /\ navs' = [navs EXCEPT ![i].content = IF ok THEN "resolved" ELSE "rejected"]
    /\ UNCHANGED <<latestNav, nextLocation, contentPromise, isPending,
                   location, painted, history, histLog, fetchLog, anySettled>>

\* a Root that swallows the failure and commits the transition anyway
RootCatches ==
    /\ painted.kind # "error"
    /\ painted # [kind |-> "tree", nav |-> UsedPromise]
    /\ navs[UsedPromise].content \in {"resolved", "rejected", "dropped"}
    /\ painted' = [kind |-> "tree", nav |-> UsedPromise]
    /\ location' = nextLocation
    /\ isPending' = FALSE
    /\ UNCHANGED <<navs, latestNav, nextLocation, contentPromise, history,
                   histLog, fetchLog, anySettled>>

\* a Root whose content update is not a transition: while the promise it
\* reads is unresolved the Suspense fallback replaces the painted tree
RootShowsSuspenseFallback ==
    /\ painted.kind # "error"
    /\ painted # [kind |-> "tree", nav |-> UsedPromise]
    /\ \/ /\ navs[UsedPromise].content = "resolved"
          /\ painted' = [kind |-> "tree", nav |-> UsedPromise]
          /\ location' = nextLocation
          /\ isPending' = FALSE
       \/ /\ navs[UsedPromise].content \in {"rejected", "dropped"}
          /\ painted' = [kind |-> "error", nav |-> UsedPromise]
          /\ UNCHANGED <<location, isPending>>
       \/ /\ navs[UsedPromise].content = "pending"
          /\ painted.kind = "tree"
          /\ painted' = [kind |-> "suspense", nav |-> 0]
          /\ UNCHANGED <<location, isPending>>
    /\ UNCHANGED <<navs, latestNav, nextLocation, contentPromise, history,
                   histLog, fetchLog, anySettled>>

\* a Root that gives up on an unresolved promise after a while
RootTimesOut ==
    /\ painted.kind # "error"
    /\ painted # [kind |-> "tree", nav |-> UsedPromise]
    /\ \/ /\ navs[UsedPromise].content = "resolved"
          /\ painted' = [kind |-> "tree", nav |-> UsedPromise]
          /\ location' = nextLocation
          /\ isPending' = FALSE
       \/ /\ navs[UsedPromise].content \in {"rejected", "dropped"}
          /\ painted' = [kind |-> "error", nav |-> UsedPromise]
          /\ UNCHANGED <<location, isPending>>
       \/ /\ navs[UsedPromise].content = "pending"
          /\ isPending
          /\ isPending' = FALSE
          /\ UNCHANGED <<location, painted>>
    /\ UNCHANGED <<navs, latestNav, nextLocation, contentPromise, history,
                   histLog, fetchLog, anySettled>>

\* React renders Root once the promise it reads has settled: the transition
\* commits, or the ErrorBoundary shows its fallback
Root ==
    /\ painted.kind # "error"
    /\ painted # [kind |-> "tree", nav |-> UsedPromise]
    /\ navs[UsedPromise].content \in {"resolved", "rejected", "dropped"}
    /\ IF navs[UsedPromise].content = "resolved"
       THEN /\ painted' = [kind |-> "tree", nav |-> UsedPromise]
            /\ location' = nextLocation
            /\ isPending' = FALSE
       ELSE /\ painted' = [kind |-> "error", nav |-> UsedPromise]
            /\ UNCHANGED <<location, isPending>>
    /\ UNCHANGED <<navs, latestNav, nextLocation, contentPromise, history,
                   histLog, fetchLog, anySettled>>

Next ==
    \/ \E j \in 1..(MaxNavs + 1) : handlePopState(j)
    \/ \E loc \in Locations, replace \in BOOLEAN : navigate(loc, replace)
    \/ \E i \in 1..(MaxNavs + 1), status \in FulfilledStatus : FetchResolve(i, status)
    \/ \E i \in 1..(MaxNavs + 1) : FetchReject(i)
    \/ \E i \in 1..(MaxNavs + 1), ok \in BOOLEAN : createFromFetch(i, ok)
    \/ Root

Spec == Init /\ [][Next]_vars

TypeOK ==
    /\ Len(navs) \in 1..(MaxNavs + 1)
    /\ contentPromise \in 1..Len(navs)
    /\ latestNav \in 0..Len(navs)
    /\ history.idx \in 1..Len(history.entries)

\* ---------------------------------------------------------------- claims
NavIds == 1..Len(navs)

HistIds == 1..Len(histLog)

\* every fetch is back with a Response, every Response is decoded, and React
\* has nothing left to render
Settled ==
    /\ \A i \in NavIds : navs[i].fetch = "fulfilled"
    /\ \A i \in NavIds : navs[i].returned = "response" => navs[i].content = "resolved"
    /\ \A k \in HistIds : histLog[k].status = "ok"
    /\ ~ENABLED Root

\* N1..Nk are navigate() calls, all initiated before any of their fetches settled
OverlappingNavigates ==
    /\ Len(navs) >= 2
    /\ \A i \in 2..Len(navs) : navs[i].kind = "navigate" /\ ~navs[i].born

\* the history the document had before any navigation
HistoryBefore(h) ==
    /\ h \in InitialHistories
    /\ getGlobalLocation(h) = navs[1].loc

\* C1: latest-wins.  When navigate() calls N1..Nk were all initiated before
\* any of their fetches came back and all of them have then resolved
\* successfully (in whatever order) and rendering has settled, nextLocation,
\* currentLocation and the painted tree are Nk's, and history has received
\* exactly one mutation: Nk's push/replace applied to the history as it was
\* before N1.
C1_LatestWins ==
    (OverlappingNavigates /\ Settled) =>
        /\ nextLocation = navs[Newest].loc
        /\ location = navs[Newest].loc
        /\ painted = [kind |-> "tree", nav |-> Newest]
        /\ Len(histLog) = 1
        /\ histLog[1].nav = Newest
        /\ histLog[1].loc = navs[Newest].loc
        /\ histLog[1].op = (IF navs[Newest].replace THEN "replace" ELSE "push")
        /\ \E h \in InitialHistories :
              /\ HistoryBefore(h)
              /\ history = CommitHistory(h, navs[Newest].loc, navs[Newest].replace)

\* two overlapping navigate() calls to different places, the older one's fetch
\* came back stale, everything settled
C1_Witness ==
    /\ OverlappingNavigates
    /\ Settled
    /\ Len(navs) = 3
    /\ navs[2].loc # navs[3].loc
    /\ navs[2].returned = "undefined"

StaleResolveStep(i) ==
    /\ i \in NavIds
    /\ navs[i].kind = "navigate"
    /\ navs[i].fetch = "inflight"
    /\ navs'[i].fetch = "fulfilled"
    /\ \E j \in NavIds : j > i /\ navs[j].kind = "navigate"

\* C3: a stale Resolve has no effect.  The step in which the fetch of a
\* superseded navigate() call comes back leaves history, nextLocation, the
\* installed content promise, the painted tree and isPending as they were.
C3_StaleResolveFrame ==
    [][(\E i \in 1..(MaxNavs + 1) : StaleResolveStep(i)) =>
          UNCHANGED <<history, histLog, nextLocation, contentPromise, painted,
                      isPending, location>>]_vars

\* a stale result was dropped, for a destination the newer call shares
C3_Witness ==
    \E i \in NavIds :
        /\ navs[i].returned = "undefined"
        /\ \E j \in NavIds : j > i /\ navs[j].loc = navs[i].loc

\* C4 (as claimed): a popstate supersedes an in-flight navigate(): no history
\* mutation is performed by a navigate() call after a popstate that came later
\* than the call.
C4_PopStateSupersedes ==
    \A k \in HistIds :
        \A j \in NavIds :
            (histLog[k].nav < j /\ j <= histLog[k].newest) => navs[j].kind # "popstate"

\* the step is a popstate being handled
PopStateStep ==
    /\ Len(navs') = Len(navs) + 1
    /\ navs'[Len(navs')].kind = "popstate"

\* the step settles the fetch or the decode of a popstate's content
PopStateResolveStep ==
    \E i \in NavIds : navs[i].kind = "popstate" /\ navs'[i] # navs[i]

\* C5: the popstate handler never pushes or replaces.  Handling a popstate
\* leaves the history entries as the browser had them, and the settling of its
\* fetch and decode leaves history untouched; no history mutation is ever
\* performed.
C5_PopStateNeverMutatesHistory ==
    [][/\ PopStateStep =>
             /\ history'.entries = history.entries
             /\ histLog' = histLog
       /\ PopStateResolveStep =>
             /\ history' = history
             /\ histLog' = histLog]_vars

\* a popstate observed the location nextLocation already had, its content
\* loaded and is painted, and the history has as many entries as before
C5_Witness ==
    /\ Len(navs) = 2
    /\ navs[2].kind = "popstate"
    /\ navs[2].loc = navs[1].loc
    /\ painted = [kind |-> "tree", nav |-> 2]
    /\ Len(history.entries) = 2
    /\ histLog = <<>>

\* C6 (as claimed): once everything has resolved successfully and rendering
\* has settled, the address bar, nextLocation and the painted content agree.
C6_AddressContentConsistency ==
    (Settled /\ painted.kind = "tree") =>
        /\ getGlobalLocation(history) = nextLocation
        /\ navs[painted.nav].loc = nextLocation

\* C7 (as claimed): history is mutated only for a fetch that ended in a
\* success response.
C7_HistoryOnlyForLoadedContent ==
    \A k \in HistIds : histLog[k].status = "ok"

\* C8: superseded-silent.  Whenever the screen or currentLocation changes, it
\* changes on behalf of the most recently initiated navigation: the error
\* fallback appears only for a failure of that navigation, so a failed or
\* dropped superseded navigation changes neither.
C8_SupersededSilent ==
    [][(painted' # painted \/ location' # location) =>
          /\ painted'.nav = Newest
          /\ painted'.kind = "error" => navs[Newest].content = "rejected"
          /\ painted'.kind = "tree" => navs[Newest].content = "resolved"]_vars

\* a superseded navigation failed or was dropped, and the newer one is painted
C8_Witness ==
    /\ Len(navs) = 3
    /\ navs[2].content \in {"rejected", "dropped"}
    /\ painted = [kind |-> "tree", nav |-> 3]
    /\ location = navs[3].loc

\* C9: a failure of the latest navigation reaches the error boundary.  A tree
\* is painted only for content that resolved; once rendering has settled, a
\* latest navigation whose content rejected has the error fallback on screen;
\* and each navigation has issued exactly one fetch (nothing is retried).
C9_LatestFailureReachesBoundary ==
    /\ painted.kind = "tree" => navs[painted.nav].content = "resolved"
    /\ painted.kind = "error" => navs[painted.nav].content = "rejected"
    /\ (navs[Newest].content = "rejected" /\ ~ENABLED Root) =>
          painted = [kind |-> "error", nav |-> Newest]
    /\ Len(fetchLog) = Len(navs)

\* the latest navigate() failed and the fallback is shown
C9_Witness ==
    /\ Len(navs) >= 2
    /\ navs[Newest].content = "rejected"
    /\ painted = [kind |-> "error", nav |-> Newest]

\* C10 (as claimed): isPending is true exactly between the Initiate of the
\* latest navigation and its committing Resolve.
C10_PendingUntilResolve ==
    Mounted => (isPending <=> (Newest > 1 /\ navs[Newest].returned # "response"))

\* C10 (amended): while Root is mounted, isPending is true exactly from the
\* Initiate of the most recently initiated navigation until the render that
\* paints that navigation's content.
C10_PendingUntilPainted ==
    Mounted => (isPending <=> painted.nav # Newest)

\* the latest navigation has committed its Resolve, its content is not painted
\* yet and isPending is still true
C10_Witness ==
    /\ Mounted
    /\ isPending
    /\ navs[Newest].kind = "navigate"
    /\ navs[Newest].returned = "response"
    /\ painted.nav # Newest

\* the step performs a pushState/replaceState
CommitStep == Len(histLog') = Len(histLog) + 1

\* C11: history mode.  A committing navigate(L, {replace: true}) overwrites
\* the location of the current entry with L and leaves the number of entries
\* and the current index as they were; a committing navigate(L) with replace
\* false (or omitted, which defaults to false) puts one new entry for L
\* directly after the current entry, keeps the entries up to the current one,
\* and makes the new entry current.
C11_HistoryMode ==
    [][CommitStep =>
          LET e == histLog'[Len(histLog')]
          IN /\ e.loc = navs[e.nav].loc
             /\ IF navs[e.nav].replace
                THEN /\ e.op = "replace"
                     /\ history'.idx = history.idx
                     /\ Len(history'.entries) = Len(history.entries)
                     /\ history'.entries[history.idx] = e.loc
                     /\ \A k \in 1..Len(history.entries) :
                           k # history.idx => history'.entries[k] = history.entries[k]
                ELSE /\ e.op = "push"
                     /\ history'.idx = history.idx + 1
                     /\ Len(history'.entries) = history.idx + 1
                     /\ history'.entries[history.idx + 1] = e.loc
                     /\ \A k \in 1..history.idx :
                           history'.entries[k] = history.entries[k]]_vars

\* a replace commit followed by a push commit, each for a location the
\* current entry did not have
C11_Witness ==
    /\ Len(histLog) = 2
    /\ histLog[1].op = "replace"
    /\ histLog[1].loc # navs[1].loc
    /\ histLog[2].op = "push"
    /\ histLog[2].loc # histLog[1].loc
    /\ getGlobalLocation(history) = histLog[2].loc

\* C12: nextLocation is the destination of the most recently initiated
\* navigation (a navigate() argument, the location a popstate observed, or the
\* initial location), in every state: also while that navigation's fetch is in
\* flight, and whatever Resolve steps have happened since.
C12_NextLocationIsNewestDestination ==
    nextLocation = navs[Newest].loc

\* a popstate went to another place after a navigate() committed; its fetch
\* is still in flight, the committed location is still the one published
C12_Witness ==
    /\ Len(navs) = 3
    /\ navs[2].kind = "navigate"
    /\ navs[3].kind = "popstate"
    /\ navs[3].loc # navs[2].loc
    /\ navs[3].fetch = "inflight"
    /\ nextLocation = navs[3].loc
    /\ location = navs[2].loc

\* navigations 2 and 3 are navigate() calls to one destination, the second
\* initiated while the fetch of the first was in flight
SameDestinationOverlap ==
    /\ Len(navs) = 3
    /\ navs[2].kind = "navigate"
    /\ navs[3].kind = "navigate"
    /\ navs[2].loc = navs[3].loc
    /\ ~navs[3].born

\* C13: token order decides.  Two overlapping navigate() calls to the same
\* destination have distinct tokens; the earlier one never mutates history,
\* whichever fetch comes back first, and once both fetches are back with a
\* Response exactly one history mutation has happened, the later call's.
C13_TokenOrderDecides ==
    SameDestinationOverlap =>
        /\ navs[2].token # navs[3].token
        /\ \A k \in HistIds : histLog[k].nav = 3
        /\ (navs[2].fetch = "fulfilled" /\ navs[3].fetch = "fulfilled") =>
              /\ Len(histLog) = 1
              /\ histLog[1].loc = navs[3].loc

\* both fetches are back, the later call's first
C13_Witness ==
    /\ SameDestinationOverlap
    /\ navs[2].returned = "undefined"
    /\ navs[3].returned = "response"
    /\ navs[3].content = "resolved"
    /\ navs[2].fetch = "fulfilled"
    /\ Len(histLog) = 1

\* C15: deferred commit.  In every step: while the installed content promise
\* is unresolved what is painted stays as it is; the painted tree changes only
\* to the tree of the installed promise, which is resolved then and belongs to
\* the most recently initiated navigation, never to a superseded one.  (The
\* error fallback of a rejected promise is the subject of C9.)
C15_DeferredCommit ==
    [][/\ navs[contentPromise].content = "pending" => painted' = painted
       /\ (painted' # painted /\ painted'.kind = "tree") =>
             /\ painted'.nav = contentPromise
             /\ painted'.nav = Newest
             /\ navs[painted'.nav].content = "resolved"
       /\ painted'.kind # "suspense" \/ painted.kind = "suspense"]_vars

\* the tree of the first navigate() stayed painted while a second one was
\* outstanding, then the second one's tree replaced it
C15_Witness ==
    /\ Len(navs) = 3
    /\ navs[2].content = "resolved"
    /\ navs[3].content = "resolved"
    /\ navs[3].born
    /\ painted = [kind |-> "tree", nav |-> 3]

\* C16: currentLocation lags.  Whenever a tree is painted, the published
\* currentLocation is the location of that tree: it is the previous location
\* while the old tree is still shown and the new one only once the new tree
\* is painted.
C16_CurrentLocationIsPaintedLocation ==
    painted.kind = "tree" => location = navs[painted.nav].loc

\* a navigation to another place is under way: nextLocation is ahead,
\* currentLocation is still the painted tree's
C16_Witness ==
    /\ painted.kind = "tree"
    /\ painted.nav # Newest
    /\ nextLocation # location
    /\ navs[Newest].returned = "response"
    /\ location = navs[painted.nav].loc

\* C17: re-fetch always.  The fetches issued so far are exactly one per
\* navigation, in initiation order, each for /rsc + that navigation's
\* destination: none is skipped for a destination that is already current
\* or already being fetched, and none is issued twice.
C17_OneFetchPerNavigation ==
    /\ Len(fetchLog) = Len(navs)
    /\ \A i \in NavIds : fetchLog[i] = RscUrl(navs[i].loc)

\* navigate() to the location already painted, and once more while that
\* fetch is in flight: three fetches of one URL
C17_Witness ==
    /\ Len(navs) = 3
    /\ navs[2].kind = "navigate"
    /\ navs[3].kind = "navigate"
    /\ navs[2].loc = navs[1].loc
    /\ navs[3].loc = navs[1].loc
    /\ navs[2].fetch = "inflight"
    /\ painted = [kind |-> "tree", nav |-> 1]
    /\ fetchLog = <<RscUrl(navs[1].loc), RscUrl(navs[1].loc), RscUrl(navs[1].loc)>>

\* the newest navigation's content is painted and nothing is pending
Idle ==
    /\ ~isPending
    /\ painted = [kind |-> "tree", nav |-> Newest]
    /\ location = nextLocation

\* the content of the newest navigation has been fetched and decoded
NewestReady == navs[Newest].content = "resolved"

\* React renders whenever a settled promise is waiting to be rendered
FairSpec == Spec /\ WF_vars(Root)

\* C18: return to Idle.  Once the fetch and decode of the latest navigation
\* have succeeded, then, unless a newer navigation is initiated, eventually
\* isPending is false, the latest navigation's tree is painted and
\* currentLocation equals nextLocation; nothing is assumed about the fetches
\* of superseded navigations.  (At every moment, later on either the router
\* is idle on the newest navigation or the newest navigation is one whose
\* content is not ready.)
C18_ReturnToIdle ==
    []<>(Idle \/ ~NewestReady)

\* idle on the latest navigation while the fetch of a superseded one never
\* came back
C18_Witness ==
    /\ Len(navs) = 3
    /\ navs[2].fetch = "inflight"
    /\ Idle

\* the newest navigation is not the initial load, its fetch is in flight
\* before and after the step, and the step initiates nothing
StalledStep ==
    /\ Newest > 1
    /\ navs[Newest].fetch = "inflight"
    /\ Len(navs') = Len(navs)
    /\ navs'[Newest].fetch = "inflight"

\* C19: no timeout.  As long as the fetch of the latest navigation stays in
\* flight and no newer navigation is initiated, every step leaves isPending
\* true and the painted tree as it was, and no history mutation is performed
\* for that navigation.
C19_NoTimeout ==
    [][StalledStep =>
          /\ isPending
          /\ isPending'
          /\ painted.kind = "tree"
          /\ painted' = painted
          /\ location' = location
          /\ \A k \in 1..Len(histLog') : histLog'[k].nav # Newest]_vars

\* the latest fetch is still in flight after an older navigation's fetch came
\* back and its content was decoded
C19_Witness ==
    /\ Len(navs) = 3
    /\ navs[3].fetch = "inflight"
    /\ navs[2].content \in {"resolved", "rejected", "dropped"}
    /\ isPending
    /\ painted = [kind |-> "tree", nav |-> 1]

\* C20: the installed content promise is the one created by the most recently
\* initiated navigation (the initial load when there is none), so it is the
\* promise of the navigation nextLocation belongs to; it is still in the state
\* its own fetch and decode gave it, and only an Initiate replaces it.
C20_InstalledPromiseIsNewest ==
    /\ contentPromise = Newest
    /\ navs[contentPromise].loc = nextLocation
    /\ navs[contentPromise].content # "dropped"

\* a navigate() is installed and in flight while the promise of the
\* navigation before it has resolved without being installed again
C20_Witness ==
    /\ Len(navs) = 3
    /\ contentPromise = 3
    /\ navs[3].fetch = "inflight"
    /\ navs[2].content = "resolved"
    /\ painted = [kind |-> "tree", nav |-> 1]

====
